---- MODULE Spec2Model ----
(***************************************************************************)
(* Adaptive Learning State Engine of Tegus-app                             *)
(* (src/api/routes/adaptive_learning.py, src/database/models.py).          *)
(*                                                                         *)
(* Numbers.  The engine computes on Python floats in [0,1].  They are      *)
(* represented here as integers in units of 1/SCALE (fixed point); a       *)
(* product of two such numbers is rounded to the nearest unit.  Event      *)
(* confidences and latencies are drawn from values for which every factor  *)
(* of the mastery rule (0.3*confidence, 0.15*speed*conf) is exact in       *)
(* these units.                                                            *)
(*                                                                         *)
(* Storage.  The handlers talk to the database through                     *)
(* db.execute(sql) / fetchone() / fetchall() / db.commit().  The tables    *)
(* are those of src/database/models.py (PostgreSQL, see                    *)
(* src/database/config.py): student_topic_state with primary key           *)
(* (student_id, topic_id) and diagnostic_events.  A handler call is one    *)
(* transaction: it begins at the first statement, its writes become        *)
(* visible at db.commit(), an UPDATE or INSERT of a row holds that row's   *)
(* lock until the transaction ends, NOW() is the transaction's start       *)
(* time, and a statement that raises takes the handler to its              *)
(* `except Exception` branch (HTTP 500) without a commit.  Calls may be    *)
(* served by different server processes, so their statements interleave.   *)
(* get_data (src/app/backtofront/connect_db.py) is declared with a         *)
(* required table_name, while the handlers call it without arguments and   *)
(* use what it returns as a SQL connection.  The model takes the handlers' *)
(* view, a connection, and keeps the failure of that call among the ways   *)
(* a call can raise (action Raise of a call that has just arrived).        *)
(***************************************************************************)
EXTENDS Integers, Sequences, FiniteSets, TLC

(* ------------------------------ bounds -------------------------------- *)
\* number of SubmitEvent calls issued in a behaviour
MaxCalls == 3
\* number of SubmitEvent calls in progress at the same time
MaxInFlight == 2
\* number of events logged in a behaviour of SpecEngine
MaxLog == 4
\* length of the event histories given to decide_next_mode in SpecEngine
MaxHistory == 4

(* --------------------------- fixed point ------------------------------ *)
\* 1.0 in model units
SCALE == 10000

Max(a, b) == IF a >= b THEN a ELSE b
Min(a, b) == IF a <= b THEN a ELSE b
Abs(a) == IF a >= 0 THEN a ELSE 0 - a

\* n/d rounded to the nearest integer (d > 0), halves upwards
RoundDiv(n, d) == (2 * n + d) \div (2 * d)

\* product of two fixed-point numbers
Mul(a, b) == RoundDiv(a * b, SCALE)

\* Python round(): n/d to the nearest integer, halves to the even one
PyRound(n, d) ==
    LET q == n \div d
        r == n - q * d
    IN  IF 2 * r < d THEN q
        ELSE IF 2 * r > d THEN q + 1
        ELSE IF q % 2 = 0 THEN q ELSE q + 1

\* Optional[float]: None is the empty tuple, a present value v is <<v>>
None == << >>
Some(v) == << v >>

(* ------------------- adaptive learning algorithms --------------------- *)
clamp_01_noclamp(x) == x

clamp_01(x) == Max(0, Min(SCALE, x))

ema(prev, value, alpha) == prev + Mul(alpha, value - prev)

\* conf_factor of update_mastery: `confidence or 0.5` replaces a falsy
\* confidence (0.0) by 0.5
conf_factor_of(confidence) ==
    IF confidence # None
    THEN 7000 + Mul(3000, IF confidence[1] # 0 THEN confidence[1] ELSE 5000)
    ELSE SCALE

speed_factor_of(latency_ms) == IF latency_ms < 15000 THEN SCALE ELSE 6000

update_mastery_away(prev, correct, latency_ms, confidence) ==
    LET speed_factor == speed_factor_of(latency_ms)
        conf_factor == conf_factor_of(confidence)
        target == IF correct THEN SCALE ELSE 0
        alpha == Mul(Mul(1500, speed_factor), conf_factor)
    IN  clamp_01(prev - Mul(alpha, target - prev))

update_mastery(prev, correct, latency_ms, confidence) ==
    LET speed_factor == speed_factor_of(latency_ms)
        conf_factor == conf_factor_of(confidence)
        target == IF correct THEN SCALE ELSE 0
        alpha == Mul(Mul(1500, speed_factor), conf_factor)
    IN  clamp_01(prev + Mul(alpha, target - prev))

update_stability_stale(prev_correct_ema, prev_volatility, correct) ==
    LET c == IF correct THEN SCALE ELSE 0
        correct_ema == ema(prev_correct_ema, c, 2000)
        volatility == ema(prev_volatility, Abs(c - prev_correct_ema), 1000)
    IN  << correct_ema, volatility, clamp_01(SCALE - volatility) >>

\* returns << correct_ema, volatility, stability >>
update_stability(prev_correct_ema, prev_volatility, correct) ==
    LET c == IF correct THEN SCALE ELSE 0
        correct_ema == ema(prev_correct_ema, c, 2000)
        volatility == ema(prev_volatility, Abs(c - correct_ema), 1000)
        stability == SCALE - volatility
    IN  << correct_ema, volatility, clamp_01(stability) >>

\* target_ms of update_pace; the quotient latency_ms / target_ms is taken
\* with both sides of the fraction reduced by 1000 to stay in machine range
TARGET_MS == 20000

update_pace_plainratio(prev_pace, latency_ms) ==
    LET ratio == RoundDiv(latency_ms * (SCALE \div 1000), TARGET_MS \div 1000)
        pace_score == clamp_01(SCALE - ratio)
    IN  ema(prev_pace, pace_score, 1000)

update_pace(prev_pace, latency_ms) ==
    LET ratio == RoundDiv(latency_ms * (SCALE \div 1000), TARGET_MS \div 1000)
        pace_score == clamp_01(SCALE - Max(0, ratio - SCALE))
    IN  ema(prev_pace, pace_score, 1000)

update_calibration_defaulted(prev_calibration, correct, confidence) ==
    LET c == IF correct THEN SCALE ELSE 0
        conf == IF confidence = None THEN 5000 ELSE confidence[1]
        score == SCALE - Abs(conf - c)
    IN  ema(prev_calibration, score, 1000)

update_calibration(prev_calibration, correct, confidence) ==
    IF confidence = None
    THEN prev_calibration
    ELSE LET c == IF correct THEN SCALE ELSE 0
             score == SCALE - Abs(confidence[1] - c)
         IN  ema(prev_calibration, score, 1000)

compute_learning_index_trunc(mastery, stability, pace, calibration) ==
    LET li == 5500 * mastery + 1500 * stability
              + 1500 * pace + 1500 * calibration
    IN  li \div ((SCALE * SCALE) \div 100)

compute_learning_index_swapped(mastery, stability, pace, calibration) ==
    LET li == 1500 * mastery + 5500 * stability
              + 1500 * pace + 1500 * calibration
    IN  PyRound(li, (SCALE * SCALE) \div 100)

\* li is kept as a fraction over SCALE * SCALE, so that only round() rounds;
\* round(li * 100) is then li rounded to a multiple of SCALE * SCALE / 100
compute_learning_index(mastery, stability, pace, calibration) ==
    LET li == 5500 * mastery + 1500 * stability
              + 1500 * pace + 1500 * calibration
    IN  PyRound(li, (SCALE * SCALE) \div 100)

difficulty_band_exclusive(mastery) ==
    IF mastery <= 3500 THEN "intro"
    ELSE IF mastery <= 7500 THEN "core"
    ELSE "stretch"

difficulty_band(mastery) ==
    IF mastery < 3500 THEN "intro"
    ELSE IF mastery < 7500 THEN "core"
    ELSE "stretch"


\* recent_events[-n:]
LastN(seq, n) == SubSeq(seq, Max(1, Len(seq) - n + 1), Len(seq))

RECURSIVE SumLatency(_)
SumLatency(events) ==
    IF events = << >> THEN 0
    ELSE Head(events).latency_ms + SumLatency(Tail(events))

Count(events, want) ==
    Cardinality({ i \in DOMAIN events : events[i].correct = want })

decide_next_mode_nocold(recent_events) ==
    LET recent == LastN(recent_events, 3)
    IN  IF recent = << >> THEN "explain"
        ELSE IF Count(recent, FALSE) >= 2 THEN "explain"
        ELSE IF Count(recent, TRUE) >= 1
                /\ SumLatency(recent) < 20000 * Len(recent) THEN "exercise"
        ELSE "explain"

decide_next_mode_exercisefirst(recent_events) ==
    IF Len(recent_events) < 2 THEN "explain"
    ELSE LET recent == LastN(recent_events, 3)
         IN  IF Count(recent, TRUE) >= 1
                /\ SumLatency(recent) < 20000 * Len(recent) THEN "exercise"
             ELSE "explain"

decide_next_mode_div3(recent_events) ==
    IF Len(recent_events) < 2 THEN "explain"
    ELSE LET recent == LastN(recent_events, 3)
         IN  IF Count(recent, FALSE) >= 2 THEN "explain"
             ELSE IF Count(recent, TRUE) >= 1
                     /\ SumLatency(recent) < 20000 * 3 THEN "exercise"
             ELSE "explain"

decide_next_mode_fallthrough(recent_events) ==
    IF Len(recent_events) < 2 THEN "explain"
    ELSE LET recent == LastN(recent_events, 3)
         IN  IF Count(recent, FALSE) >= 2 THEN "explain"
             ELSE IF Count(recent, TRUE) >= 1
                     /\ SumLatency(recent) < 20000 * Len(recent)
                  THEN "exercise"
             ELSE "none"

\* recent_events: the dicts built from the rows, in the order given.
\* avg_latency < 20000 is sum/len < 20000, taken as sum < 20000 * len.
decide_next_mode_twocorrect(recent_events) ==
    IF Len(recent_events) < 2 THEN "explain"
    ELSE LET recent == LastN(recent_events, 3)
             corrects == Count(recent, TRUE)
             misses == Count(recent, FALSE)
         IN  IF misses >= 2 THEN "explain"
             ELSE IF corrects >= 2
                     /\ SumLatency(recent) < 20000 * Len(recent)
                  THEN "exercise"
             ELSE "explain"

decide_next_mode(recent_events) ==
    IF Len(recent_events) < 2 THEN "explain"
    ELSE LET recent == LastN(recent_events, 3)
             corrects == Count(recent, TRUE)
             misses == Count(recent, FALSE)
         IN  IF misses >= 2 THEN "explain"
             ELSE IF corrects >= 1
                     /\ SumLatency(recent) < 20000 * Len(recent)
                  THEN "exercise"
             ELSE "explain"

(* -------------------- submit_event: the computation ------------------- *)
\* the dict submit_event uses when the key has no row
DefaultState ==
    [mastery |-> 0, correct_ema |-> 0, volatility |-> 5000,
     pace |-> 5000, calibration |-> 5000]

\* the metric columns of what fetchone() returned, or the defaults
StateOrDefault(current_state) ==
    IF current_state = None THEN DefaultState
    ELSE [f \in DOMAIN DefaultState |-> current_state[1][f]]

UpdateMetrics_frozen(current_state, event) ==
    LET cur == StateOrDefault(current_state)
        stability == clamp_01(SCALE - cur.volatility)
    IN  [mastery |-> cur.mastery, correct_ema |-> cur.correct_ema,
         volatility |-> cur.volatility, stability |-> stability,
         pace |-> cur.pace, calibration |-> cur.calibration,
         learning_index |->
             compute_learning_index(cur.mastery, stability, cur.pace,
                                    cur.calibration),
         difficulty_band |-> difficulty_band(cur.mastery)]

\* "Update metrics": the values submit_event computes from the state it
\* read and the event, before it writes anything
UpdateMetrics(current_state, event) ==
    LET cur == StateOrDefault(current_state)
        mastery == update_mastery(cur.mastery, event.correct,
                                  event.latency_ms, event.confidence)
        stab == update_stability(cur.correct_ema, cur.volatility, event.correct)
        pace == update_pace(cur.pace, event.latency_ms)
        calibration == update_calibration(cur.calibration, event.correct,
                                          event.confidence)
    IN  [mastery |-> mastery, correct_ema |-> stab[1], volatility |-> stab[2],
         stability |-> stab[3], pace |-> pace, calibration |-> calibration,
         learning_index |->
             compute_learning_index(mastery, stab[3], pace, calibration),
         difficulty_band |-> difficulty_band(mastery)]

(* ------------------------------ requests ------------------------------ *)
Students == {"s1"}
Topics == {"t1", "t2"}
Keys == Students \X Topics

\* request bodies accepted by the EventSubmission model: any str event_type,
\* any int latency_ms, any float or absent confidence
Submissions ==
    { [event_type |-> "probe", correct |-> TRUE, latency_ms |-> 5000,
       confidence |-> Some(8000)],
      [event_type |-> "exercise", correct |-> FALSE, latency_ms |-> 25000,
       confidence |-> None],
      [event_type |-> "explain", correct |-> TRUE, latency_ms |-> 150000,
       confidence |-> Some(0)],
      [event_type |-> "quiz", correct |-> FALSE, latency_ms |-> -1000,
       confidence |-> Some(15000)] }

EventTypes == {"probe", "exercise", "explain"}

\* the constraints the data model puts on a LearningEvent
ValidEvent(e) ==
    /\ e.latency_ms >= 0
    /\ e.confidence # None => (e.confidence[1] >= 0 /\ e.confidence[1] <= SCALE)
    /\ e.event_type \in EventTypes

Requests ==
    { [student_id |-> k[1], topic_id |-> k[2], event_type |-> s.event_type,
       correct |-> s.correct, latency_ms |-> s.latency_ms,
       confidence |-> s.confidence] : k \in Keys, s \in Submissions }

(* ------------------------------- state -------------------------------- *)
VARIABLES
    student_topic_state,  \* committed rows of table student_topic_state
    diagnostic_events,    \* committed rows of table diagnostic_events
    calls,                \* the SubmitEvent calls: position and locals
    clock,                \* database time
    applied,              \* history: per key, the calls whose state write
                          \* was committed, in commit order
    lineage,              \* history: per key, the calls whose events the
                          \* committed row was computed from, in order
    fn                    \* SpecFn: arguments and results of one application
                          \* of the update functions

vars == << student_topic_state, diagnostic_events, calls, clock, applied,
           lineage, fn >>

CallIds == 1 .. MaxCalls

NoEvent ==
    [student_id |-> "", topic_id |-> "", event_type |-> "", correct |-> FALSE,
     latency_ms |-> 0, confidence |-> None]

NoMetrics ==
    [mastery |-> 0, correct_ema |-> 0, volatility |-> 0, stability |-> 0,
     pace |-> 0, calibration |-> 0, learning_index |-> 0,
     difficulty_band |-> ""]

IdleCall ==
    [pc |-> "idle", event |-> NoEvent, current_state |-> None,
     metrics |-> NoMetrics, tx_start |-> 0, base |-> << >>]

KeyOf(r) == << r.student_id, r.topic_id >>

(* ------------------------------ the SQL ------------------------------- *)
\* SELECT * FROM student_topic_state WHERE student_id = .. AND topic_id = ..
SelectState(table, student_id, topic_id) ==
    { r \in table : r.student_id = student_id /\ r.topic_id = topic_id }

\* result.fetchone(): a row of the result, or None
fetchone(rows) ==
    IF rows = {} THEN None ELSE Some(CHOOSE r \in rows : TRUE)

StateRow(student_id, topic_id, m) ==
    [student_id |-> student_id, topic_id |-> topic_id, mastery |-> m.mastery,
     correct_ema |-> m.correct_ema, volatility |-> m.volatility,
     pace |-> m.pace, calibration |-> m.calibration,
     learning_index |-> m.learning_index,
     difficulty_band |-> m.difficulty_band]

\* UPDATE student_topic_state SET .. WHERE student_id = .. AND topic_id = ..
UpdateState_anytopic(table, student_id, topic_id, m) ==
    { IF r.student_id = student_id
      THEN StateRow(r.student_id, r.topic_id, m) ELSE r : r \in table }

UpdateState(table, student_id, topic_id, m) ==
    { IF r.student_id = student_id /\ r.topic_id = topic_id
      THEN StateRow(r.student_id, r.topic_id, m) ELSE r : r \in table }

\* INSERT INTO student_topic_state (..) VALUES (..)
InsertState(table, student_id, topic_id, m) ==
    table \cup { StateRow(student_id, topic_id, m) }

InsertEvent_latestonly(table, id, event, now) ==
    { e \in table : KeyOf(e) # KeyOf(event) }
    \cup { [id |-> id, student_id |-> event.student_id,
            topic_id |-> event.topic_id,
            event_type |-> event.event_type, correct |-> event.correct,
            latency_ms |-> event.latency_ms,
            confidence |-> event.confidence, created_at |-> now] }

\* INSERT INTO diagnostic_events (..) VALUES (.., NOW())
InsertEvent(table, id, event, now) ==
    table \cup { [id |-> id, student_id |-> event.student_id,
                  topic_id |-> event.topic_id,
                  event_type |-> event.event_type, correct |-> event.correct,
                  latency_ms |-> event.latency_ms,
                  confidence |-> event.confidence, created_at |-> now] }

\* the row lock of a key is held by a call that has written the key's row
\* and has not ended its transaction
HoldsLock(c, key) ==
    /\ calls[c].pc \in {"state_saved", "event_saved"}
    /\ KeyOf(calls[c].event) = key

LockFree(c, key) == \A d \in CallIds \ {c} : ~HoldsLock(d, key)

(* ------------------------------ actions ------------------------------- *)
NoFn ==
    [done |-> FALSE, prev |-> 0, prev2 |-> 0, correct |-> FALSE,
     latency_ms |-> 0, confidence |-> None, mastery |-> 0,
     stability |-> << 0, 0, 0 >>, pace |-> 0, calibration |-> 0]

InitDb ==
    /\ student_topic_state = {}
    /\ diagnostic_events = {}
    /\ calls = [c \in CallIds |-> IdleCall]
    /\ clock = 1
    /\ applied = [k \in Keys |-> << >>]
    /\ lineage = [k \in Keys |-> << >>]

Init ==
    /\ InitDb
    /\ fn = NoFn

InFlight == {"computed", "state_saved", "event_saved"}

\* calls are numbered in the order in which they arrive
Arrives(c) ==
    /\ calls[c].pc = "idle"
    /\ \A d \in CallIds : d < c => calls[d].pc # "idle"
    /\ Cardinality({ d \in CallIds : calls[d].pc \in InFlight }) < MaxInFlight

\* submit_event up to "Save updated state": get_data(), the SELECT,
\* fetchone() and the computation of the new metrics
ReadState(c, event) ==
    /\ Arrives(c)
    /\ LET current_state ==
               fetchone(SelectState(student_topic_state, event.student_id,
                                    event.topic_id))
       IN  calls' = [calls EXCEPT ![c] =
                        [pc |-> "computed", event |-> event,
                         current_state |-> current_state,
                         metrics |-> UpdateMetrics(current_state, event),
                         tx_start |-> clock,
                         base |-> lineage[KeyOf(event)]]]
    /\ clock' = clock + 1
    /\ UNCHANGED << student_topic_state, diagnostic_events, applied, lineage,
                    fn >>

\* the UPDATE branch of "Save updated state" (the row that was read carries
\* a student_id)
SaveStateUpdate(c) ==
    /\ calls[c].pc = "computed"
    /\ calls[c].current_state # None
    /\ LockFree(c, KeyOf(calls[c].event))
    /\ calls' = [calls EXCEPT ![c].pc = "state_saved"]
    /\ UNCHANGED << student_topic_state, diagnostic_events, clock, applied,
                    lineage, fn >>

SaveStateInsert_nopk(c) ==
    /\ calls[c].pc = "computed"
    /\ calls[c].current_state = None
    /\ LockFree(c, KeyOf(calls[c].event))
    /\ calls' = [calls EXCEPT ![c].pc = "state_saved"]
    /\ UNCHANGED << student_topic_state, diagnostic_events, clock, applied,
                    lineage, fn >>

\* the INSERT branch (the defaults dict carries no student_id); the primary
\* key rejects a second row of the key
SaveStateInsert(c) ==
    /\ calls[c].pc = "computed"
    /\ calls[c].current_state = None
    /\ LockFree(c, KeyOf(calls[c].event))
    /\ IF SelectState(student_topic_state, calls[c].event.student_id,
                      calls[c].event.topic_id) = {}
       THEN calls' = [calls EXCEPT ![c].pc = "state_saved"]
       ELSE calls' = [calls EXCEPT ![c] = [IdleCall EXCEPT !.pc = "error"]]
    /\ UNCHANGED << student_topic_state, diagnostic_events, clock, applied,
                    lineage, fn >>

\* "Save event": the INSERT into diagnostic_events
SaveEvent(c) ==
    /\ calls[c].pc = "state_saved"
    /\ calls' = [calls EXCEPT ![c].pc = "event_saved"]
    /\ UNCHANGED << student_topic_state, diagnostic_events, clock, applied,
                    lineage, fn >>

Commit_eventonly(c) ==
    /\ calls[c].pc = "event_saved"
    /\ diagnostic_events' =
          InsertEvent(diagnostic_events, c, calls[c].event, calls[c].tx_start)
    /\ calls' = [calls EXCEPT ![c].pc = "ok"]
    /\ UNCHANGED << student_topic_state, clock, applied, lineage, fn >>

\* db.commit() and the return of EventResponse(ok=True, ..): the writes of
\* the transaction reach the tables
Commit(c) ==
    /\ calls[c].pc = "event_saved"
    /\ LET e == calls[c].event
           k == KeyOf(e)
       IN  /\ student_topic_state' =
                 IF calls[c].current_state # None
                 THEN UpdateState(student_topic_state, e.student_id,
                                  e.topic_id, calls[c].metrics)
                 ELSE InsertState(student_topic_state, e.student_id,
                                  e.topic_id, calls[c].metrics)
           /\ diagnostic_events' =
                 InsertEvent(diagnostic_events, c, e, calls[c].tx_start)
           /\ applied' = [applied EXCEPT ![k] = Append(@, c)]
           /\ lineage' = [lineage EXCEPT ![k] = Append(calls[c].base, c)]
    /\ calls' = [calls EXCEPT ![c].pc = "ok"]
    /\ UNCHANGED << clock, fn >>

\* a statement raises: `except Exception` logs and raises HTTPException(500);
\* nothing of the transaction is committed
Raise(c) ==
    /\ \/ Arrives(c)
       \/ calls[c].pc \in {"computed", "state_saved", "event_saved"}
    /\ calls' = [calls EXCEPT ![c] = [IdleCall EXCEPT !.pc = "error"]]
    /\ UNCHANGED << student_topic_state, diagnostic_events, clock, applied,
                    lineage, fn >>

Next ==
    \/ \E c \in CallIds, event \in Requests : ReadState(c, event)
    \/ \E c \in CallIds : SaveStateUpdate(c)
    \/ \E c \in CallIds : SaveStateInsert(c)
    \/ \E c \in CallIds : SaveEvent(c)
    \/ \E c \in CallIds : Commit(c)
    \/ \E c \in CallIds : Raise(c)

Spec == Init /\ [][Next]_vars


(* ------------- the update functions on their own (SpecFn) ------------- *)
\* previous metric values, event latencies and confidences tried
MetricGrid == {0, 1410, 3500, 5000, 7500, 10000}
Metric2Grid == {0, 5000, 10000}
LatencyGrid ==
    {-1000, 0, 5000, 14000, 15000, 20000, 21000, 25000, 40000, 41000, 150000}
ConfidenceGrid ==
    {None, Some(0), Some(2000), Some(5000), Some(8000), Some(10000)}

InitFn ==
    /\ InitDb
    /\ fn \in { [NoFn EXCEPT !.prev = x, !.prev2 = y, !.correct = b,
                             !.latency_ms = l, !.confidence = cf] :
                x \in MetricGrid, y \in Metric2Grid, b \in BOOLEAN,
                l \in LatencyGrid, cf \in ConfidenceGrid }

\* one application of each update rule to the arguments drawn
ApplyFn ==
    /\ ~fn.done
    /\ fn' = [fn EXCEPT
                !.done = TRUE,
                !.mastery = update_mastery(fn.prev, fn.correct, fn.latency_ms,
                                           fn.confidence),
                !.stability = update_stability(fn.prev, fn.prev2, fn.correct),
                !.pace = update_pace(fn.prev, fn.latency_ms),
                !.calibration = update_calibration(fn.prev, fn.correct,
                                                   fn.confidence)]
    /\ UNCHANGED << student_topic_state, diagnostic_events, calls, clock,
                    applied, lineage >>

NextFn == ApplyFn

SpecFn == InitFn /\ [][NextFn]_vars


(* ------------- the engine served by one process (SpecEngine) ---------- *)
(* The handlers are coroutines without an await: in one server process a   *)
(* call runs from its first statement to its return before the next call   *)
(* starts.  SpecEngine takes each handler as one step on the tables and     *)
(* keeps in fn the response of the last call.  Its behaviours that start    *)
(* from arguments drawn for compute_learning_index, difficulty_band,        *)
(* decide_next_mode or the update rules apply those functions instead.      *)

\* LIMIT of the query of next_lesson_turn
RECENT_LIMIT == 5

\* round(x * 100, 1), in tenths of a percent
Round1(x) == PyRound(x, 10)

\* updated_metrics of the EventResponse
SubmitResponse(m) ==
    [mastery |-> Round1(m.mastery), stability |-> Round1(m.stability),
     pace |-> Round1(m.pace), calibration |-> Round1(m.calibration),
     learning_index |-> m.learning_index,
     difficulty_band |-> m.difficulty_band]

MetricsResponse_composed(state) ==
    IF state = None
    THEN [mastery |-> 0, stability |-> 500, pace |-> 500,
          calibration |-> 500,
          learning_index |-> compute_learning_index(0, 5000, 5000, 5000),
          difficulty_band |-> "intro"]
    ELSE LET stability == Max(0, SCALE - state[1].volatility)
         IN  [mastery |-> Round1(state[1].mastery),
              stability |-> Round1(stability),
              pace |-> Round1(state[1].pace),
              calibration |-> Round1(state[1].calibration),
              learning_index |-> state[1].learning_index,
              difficulty_band |-> state[1].difficulty_band]

MetricsResponse_rawvolatility(state) ==
    IF state = None
    THEN [mastery |-> 0, stability |-> 500, pace |-> 500,
          calibration |-> 500, learning_index |-> 0,
          difficulty_band |-> "intro"]
    ELSE [mastery |-> Round1(state[1].mastery),
          stability |-> Round1(state[1].volatility),
          pace |-> Round1(state[1].pace),
          calibration |-> Round1(state[1].calibration),
          learning_index |-> state[1].learning_index,
          difficulty_band |-> state[1].difficulty_band]

\* what get_topic_metrics returns for the row fetched (None: no row)
MetricsResponse(state) ==
    IF state = None
    THEN [mastery |-> 0, stability |-> 500, pace |-> 500,
          calibration |-> 500, learning_index |-> 0,
          difficulty_band |-> "intro"]
    ELSE LET stability == Max(0, SCALE - state[1].volatility)
         IN  [mastery |-> Round1(state[1].mastery),
              stability |-> Round1(stability),
              pace |-> Round1(state[1].pace),
              calibration |-> Round1(state[1].calibration),
              learning_index |-> state[1].learning_index,
              difficulty_band |-> state[1].difficulty_band]

RECURSIVE OrderByCreatedAtDesc(_)
OrderByCreatedAtDesc(rows) ==
    IF rows = {} THEN << >>
    ELSE LET e == CHOOSE x \in rows :
                      \A y \in rows : y.created_at <= x.created_at
         IN  << e >> \o OrderByCreatedAtDesc(rows \ {e})

FirstN(seq, n) == SubSeq(seq, 1, Min(n, Len(seq)))

\* SELECT event_type, correct, latency_ms, confidence FROM diagnostic_events
\* WHERE student_id = .. AND topic_id = .. ORDER BY created_at DESC LIMIT 5,
\* fetchall() and the conversion of the rows to dicts
SelectRecentEvents(table, student_id, topic_id) ==
    LET rows == FirstN(OrderByCreatedAtDesc(
                           { e \in table : /\ e.student_id = student_id
                                           /\ e.topic_id = topic_id }),
                       RECENT_LIMIT)
    IN  [i \in DOMAIN rows |->
            [event_type |-> rows[i].event_type, correct |-> rows[i].correct,
             latency_ms |-> rows[i].latency_ms,
             confidence |-> rows[i].confidence]]

NoResponse == [kind |-> "none"]

\* fn holds a response (or none yet), not arguments of a function
Serving ==
    /\ "kind" \in DOMAIN fn
    /\ fn.kind \in {"none", "submit", "metrics", "turn", "error"}

\* POST /events: the whole of submit_event when no statement raises
submit_event(event) ==
    /\ Serving
    /\ Cardinality(diagnostic_events) < MaxLog
    /\ LET current_state ==
               fetchone(SelectState(student_topic_state, event.student_id,
                                    event.topic_id))
           m == UpdateMetrics(current_state, event)
       IN  /\ student_topic_state' =
                 IF current_state # None
                 THEN UpdateState(student_topic_state, event.student_id,
                                  event.topic_id, m)
                 ELSE InsertState(student_topic_state, event.student_id,
                                  event.topic_id, m)
           /\ diagnostic_events' =
                 InsertEvent(diagnostic_events, clock, event, clock)
           /\ fn' = [kind |-> "submit", key |-> KeyOf(event), ok |-> TRUE,
                     updated_metrics |-> SubmitResponse(m)]
    /\ clock' = clock + 1
    /\ UNCHANGED << calls, applied, lineage >>

next_lesson_turn_recording(key, last_turn_result) ==
    /\ Serving
    /\ fn' = [kind |-> "turn", key |-> key,
              mode |-> decide_next_mode(
                           SelectRecentEvents(diagnostic_events, key[1],
                                              key[2]))]
    /\ diagnostic_events' =
          InsertEvent(diagnostic_events, 0, last_turn_result, clock)
    /\ UNCHANGED << student_topic_state, calls, clock, applied, lineage >>

\* POST /lesson/next: next_lesson_turn when no statement raises; the
\* request carries last_turn_result, which the handler does not use
next_lesson_turn(key, last_turn_result) ==
    /\ Serving
    /\ fn' = [kind |-> "turn", key |-> key,
              mode |-> decide_next_mode(
                           SelectRecentEvents(diagnostic_events, key[1],
                                              key[2]))]
    /\ UNCHANGED << student_topic_state, diagnostic_events, calls, clock,
                    applied, lineage >>

\* GET /metrics/topic: get_topic_metrics when no statement raises
get_topic_metrics(key) ==
    /\ Serving
    /\ fn' = [kind |-> "metrics", key |-> key,
              metrics |-> MetricsResponse(
                              fetchone(SelectState(student_topic_state,
                                                   key[1], key[2])))]
    /\ UNCHANGED << student_topic_state, diagnostic_events, calls, clock,
                    applied, lineage >>

HandlerRaises_fallback(handler) ==
    /\ Serving
    /\ fn' = IF handler = "get_topic_metrics"
             THEN [kind |-> "metrics", handler |-> handler,
                   key |-> << "s1", "t1" >>,
                   metrics |-> MetricsResponse(None)]
             ELSE [kind |-> "error", handler |-> handler,
                   status_code |-> 500]
    /\ UNCHANGED << student_topic_state, diagnostic_events, calls, clock,
                    applied, lineage >>

\* a statement of a handler raises: its `except Exception` branch raises
\* HTTPException(500) and nothing was committed
HandlerRaises(handler) ==
    /\ Serving
    /\ fn' = [kind |-> "error", handler |-> handler, status_code |-> 500]
    /\ UNCHANGED << student_topic_state, diagnostic_events, calls, clock,
                    applied, lineage >>

(* arguments for the functions *)
IndexMasteryGrid == {0, 1000, 3000, 3499, 3500, 7499, 7500, 10000}
IndexMetricGrid == {0, 3000, 5000, 10000}

IndexInputs ==
    { [kind |-> "index", done |-> FALSE, mastery |-> m, stability |-> s,
       pace |-> p, calibration |-> c, learning_index |-> 0,
       difficulty_band |-> ""] :
      m \in IndexMasteryGrid, s \in IndexMetricGrid, p \in IndexMetricGrid,
      c \in IndexMetricGrid }

PolicyEvents ==
    { [correct |-> b, latency_ms |-> l] :
      b \in BOOLEAN, l \in {5000, 20000, 35000} }

Histories == UNION { [1 .. n -> PolicyEvents] : n \in 0 .. MaxHistory }

PolicyInputs ==
    { [kind |-> "policy", done |-> FALSE, recent_events |-> h, mode |-> ""] :
      h \in Histories }

ApplyIndex ==
    /\ "kind" \in DOMAIN fn /\ fn.kind = "index" /\ ~fn.done
    /\ fn' = [fn EXCEPT
                !.done = TRUE,
                !.learning_index =
                    compute_learning_index(fn.mastery, fn.stability, fn.pace,
                                           fn.calibration),
                !.difficulty_band = difficulty_band(fn.mastery)]
    /\ UNCHANGED << student_topic_state, diagnostic_events, calls, clock,
                    applied, lineage >>

ApplyPolicy ==
    /\ "kind" \in DOMAIN fn /\ fn.kind = "policy" /\ ~fn.done
    /\ fn' = [fn EXCEPT !.done = TRUE,
                        !.mode = decide_next_mode(fn.recent_events)]
    /\ UNCHANGED << student_topic_state, diagnostic_events, calls, clock,
                    applied, lineage >>

ApplyUpdate == "prev" \in DOMAIN fn /\ ApplyFn

InitEngine ==
    \/ InitFn
    \/ InitDb /\ fn \in IndexInputs
    \/ InitDb /\ fn \in PolicyInputs
    \/ InitDb /\ fn = NoResponse

Handlers == {"submit_event", "next_lesson_turn", "get_topic_metrics"}

\* the requests sent in SpecEngine: every submission for the first topic,
\* one for each other topic
EngineRequests ==
    { r \in Requests : r.topic_id = "t1" \/ r.event_type = "probe" }

NextEngine ==
    \/ \E event \in EngineRequests : submit_event(event)
    \/ \E key \in Keys, last \in EngineRequests : next_lesson_turn(key, last)
    \/ \E key \in Keys : get_topic_metrics(key)
    \/ \E handler \in Handlers : HandlerRaises(handler)
    \/ ApplyIndex
    \/ ApplyPolicy
    \/ ApplyUpdate

SpecEngine == InitEngine /\ [][NextEngine]_vars

(* ============================ properties ============================== *)
Range(seq) == { seq[i] : i \in 1 .. Len(seq) }

RowsOf(k) == { r \in student_topic_state : KeyOf(r) = k }

EventsOfKey(k) == { e \in diagnostic_events : KeyOf(e) = k }

In01(x) == 0 <= x /\ x <= SCALE

\* the calls that have returned ok for key k
OkCalls(k) ==
    { c \in CallIds : calls[c].pc = "ok" /\ KeyOf(calls[c].event) = k }

\* C1: starting from the default TopicState, after any sequence of
\* SubmitEvent calls with valid events on a key, mastery, correct_ema,
\* volatility, pace, calibration and the derived stability all lie in [0,1]
\* (in what a call computes and in what is stored).
BoundedMetrics ==
    /\ \A r \in student_topic_state :
          (\A c \in Range(lineage[KeyOf(r)]) : ValidEvent(calls[c].event))
          => /\ In01(r.mastery) /\ In01(r.correct_ema) /\ In01(r.volatility)
             /\ In01(r.pace) /\ In01(r.calibration)
             /\ In01(SCALE - r.volatility)
    /\ \A c \in CallIds :
          ( /\ calls[c].pc \in InFlight \cup {"ok"}
            /\ ValidEvent(calls[c].event)
            /\ \A d \in Range(calls[c].base) : ValidEvent(calls[d].event) )
          => LET m == calls[c].metrics
             IN  /\ In01(m.mastery) /\ In01(m.correct_ema)
                 /\ In01(m.volatility) /\ In01(m.pace) /\ In01(m.calibration)
                 /\ In01(m.stability)

\* a stored state computed from two valid events, the second one slow
BoundedMetricsWitness ==
    \E r \in student_topic_state :
        /\ Len(lineage[KeyOf(r)]) >= 2
        /\ \A c \in Range(lineage[KeyOf(r)]) : ValidEvent(calls[c].event)
        /\ calls[lineage[KeyOf(r)][2]].event.latency_ms > 2 * TARGET_MS
        /\ r.pace < 5000

\* C2: two SubmitEvent calls of one key that read the same base TopicState
\* do not both succeed in writing a state computed from that base.
OneWriterPerBase ==
    \A c, d \in CallIds :
        ( /\ c # d
          /\ calls[c].pc = "ok" /\ calls[d].pc = "ok"
          /\ KeyOf(calls[c].event) = KeyOf(calls[d].event) )
        => ~ ( /\ calls[c].base = calls[d].base
               /\ calls[c].current_state = calls[d].current_state )

\* the stored state after the events of the calls cs are applied one after
\* another to the state start
RECURSIVE SerialState(_, _)
SerialState(start, cs) ==
    IF cs = << >> THEN start
    ELSE LET e == calls[Head(cs)].event
         IN  SerialState(Some(StateRow(e.student_id, e.topic_id,
                                       UpdateMetrics(start, e))), Tail(cs))

Orders(S) ==
    { p \in [1 .. Cardinality(S) -> S] :
        \A i, j \in 1 .. Cardinality(S) : p[i] = p[j] => i = j }

\* C3: once all SubmitEvent calls have returned ok, the stored TopicState of
\* a key is the result of applying the events of its calls exactly once
\* each, one after another in some order, to the state before them.
SerialOutcome ==
    (\A c \in CallIds : calls[c].pc \in {"idle", "ok"})
    => \A k \in Keys :
          OkCalls(k) # {}
          => \E p \in Orders(OkCalls(k)) :
                RowsOf(k) = { SerialState(None, p)[1] }

\* C4: the update of every valid event whose SubmitEvent succeeded is applied to
\* the TopicState: the stored state is computed from it (a conflicting write
\* is redone on the fresh state, never dropped).
EveryUpdateApplied ==
    \A c \in CallIds :
        (calls[c].pc = "ok" /\ ValidEvent(calls[c].event))
        => c \in Range(lineage[KeyOf(calls[c].event)])

CreatedAt(c) == (CHOOSE e \in diagnostic_events : e.id = c).created_at

\* C5: within one key the updates are applied to the TopicState in the order
\* of increasing created_at of their events in the EventLog.
AppliedInCreatedOrder ==
    \A k \in Keys :
        \A i, j \in 1 .. Len(applied[k]) :
            i < j => CreatedAt(applied[k][i]) < CreatedAt(applied[k][j])

\* C6: a SubmitEvent of key (s, t) leaves the TopicState and the EventLog
\* entries of every other key unchanged, and what it computes is determined
\* by its own key's state and its event alone.
OtherKeysUntouched ==
    [][ /\ \A k \in Keys :
              (RowsOf(k)' # RowsOf(k) \/ EventsOfKey(k)' # EventsOfKey(k))
              => \E c \in CallIds :
                    /\ calls[c].pc = "event_saved" /\ calls'[c].pc = "ok"
                    /\ KeyOf(calls[c].event) = k
        /\ \A c \in CallIds :
              (calls[c].pc = "idle" /\ calls'[c].pc = "computed")
              => LET e == calls'[c].event
                 IN  /\ calls'[c].current_state =
                            fetchone(RowsOf(KeyOf(e)))
                     /\ calls'[c].metrics =
                            UpdateMetrics(fetchone(RowsOf(KeyOf(e))), e)
      ]_vars

\* both keys hold a state and events
OtherKeysUntouchedWitness ==
    \A k \in Keys : RowsOf(k) # {} /\ EventsOfKey(k) # {}

\* C7: a submission with latency_ms < 0, a present confidence outside
\* [0,1] or an event_type outside {probe, exercise, explain} is rejected:
\* it appends no event and changes no TopicState.
InvalidRejected ==
    /\ \A e \in diagnostic_events : ValidEvent(e)
    /\ \A c \in CallIds : calls[c].pc = "ok" => ValidEvent(calls[c].event)
    /\ \A k \in Keys : \A c \in Range(lineage[k]) : ValidEvent(calls[c].event)

\* C8: for previous mastery in [0,1], latency_ms >= 0 and confidence absent
\* or in [0,1] (0 included), update_mastery returns
\* clamp01(mastery + alpha*(target - mastery)), alpha = 0.15 * speed_factor
\* * conf_factor, speed_factor = 1.0 below 15000 ms else 0.6, conf_factor =
\* 1.0 without confidence else 0.7 + 0.3*confidence; (correct, 5000 ms,
\* 0.8) on a new key gives 0.141, then (incorrect, 25000 ms, none) 0.1283.
MasteryRule ==
    (fn.done /\ fn.latency_ms >= 0)
    => LET sf == IF fn.latency_ms < 15000 THEN SCALE ELSE 6000
           cf == IF fn.confidence = None THEN SCALE
                 ELSE 7000 + Mul(3000, fn.confidence[1])
           target == IF fn.correct THEN SCALE ELSE 0
           alpha == Mul(Mul(1500, sf), cf)
       IN  /\ fn.mastery =
                 Max(0, Min(SCALE, fn.prev + Mul(alpha, target - fn.prev)))
           /\ ( fn.prev = 0 /\ fn.correct /\ fn.latency_ms = 5000
                /\ fn.confidence = Some(8000) ) => fn.mastery = 1410
           /\ ( fn.prev = 1410 /\ ~fn.correct /\ fn.latency_ms = 25000
                /\ fn.confidence = None ) => fn.mastery = 1283

\* C9: the stability update computes correct_ema' = correct_ema +
\* 0.2*(c - correct_ema), then volatility' = volatility + 0.1*(|c -
\* correct_ema'| - volatility) from the updated correct_ema', and stability
\* = clamp01(1 - volatility'); correct_ema' and volatility' are what is
\* persisted.
StabilityRule ==
    /\ \A c \in CallIds :
          calls[c].pc \in InFlight \cup {"ok"}
          => LET cur == StateOrDefault(calls[c].current_state)
                 cc == IF calls[c].event.correct THEN SCALE ELSE 0
                 m == calls[c].metrics
             IN  /\ m.correct_ema =
                       cur.correct_ema + Mul(2000, cc - cur.correct_ema)
                 /\ m.volatility =
                       cur.volatility
                       + Mul(1000, Abs(cc - m.correct_ema) - cur.volatility)
                 /\ m.stability = Max(0, Min(SCALE, SCALE - m.volatility))
    /\ \A k \in Keys :
          applied[k] # << >>
          => \A r \in RowsOf(k) :
                LET m == calls[applied[k][Len(applied[k])]].metrics
                IN  r.correct_ema = m.correct_ema
                    /\ r.volatility = m.volatility

\* a persisted state whose last event was correct on top of an earlier one
StabilityRuleWitness ==
    \E k \in Keys :
        /\ Len(applied[k]) >= 2
        /\ calls[applied[k][Len(applied[k])]].event.correct
        /\ \E r \in RowsOf(k) : r.correct_ema > 0 /\ r.volatility # 5000

\* C10: pace' = pace + 0.1*(pace_score - pace) where pace_score is 1.0 for
\* every latency at or below 20000 ms, 0 for every latency at or above
\* 40000 ms and 1 - (latency_ms/20000 - 1) in between.
PaceRule ==
    fn.done
    => LET score == IF fn.latency_ms <= 20000 THEN SCALE
                    ELSE IF fn.latency_ms >= 40000 THEN 0
                    ELSE 2 * SCALE - (fn.latency_ms \div 2)
       IN  fn.pace = fn.prev + Mul(1000, score - fn.prev)

\* update_pace applied to a latency of 40000 ms or more
PaceRuleWitness ==
    fn.done /\ fn.latency_ms >= 40000 /\ fn.prev > 0 /\ fn.pace < fn.prev

\* C11: an event without confidence leaves calibration exactly unchanged
\* while mastery, correct_ema, volatility and pace are updated by their
\* rules (mastery with conf_factor 1.0); an event with confidence sets
\* calibration' = calibration + 0.1*((1 - |confidence - c|) - calibration).
CalibrationRule ==
    fn.done
    => LET c == IF fn.correct THEN SCALE ELSE 0
           sf == IF fn.latency_ms < 15000 THEN SCALE ELSE 6000
       IN  IF fn.confidence = None
           THEN /\ fn.calibration = fn.prev
                /\ fn.mastery =
                      Max(0, Min(SCALE,
                                 fn.prev + Mul(Mul(1500, sf), c - fn.prev)))
                /\ fn.stability[1] = fn.prev + Mul(2000, c - fn.prev)
                /\ fn.stability[2] =
                      fn.prev2
                      + Mul(1000, Abs(c - fn.stability[1]) - fn.prev2)
                /\ fn.pace =
                      fn.prev
                      + Mul(1000,
                            (IF fn.latency_ms <= 20000 THEN SCALE
                             ELSE IF fn.latency_ms >= 40000 THEN 0
                             ELSE 2 * SCALE - (fn.latency_ms \div 2))
                            - fn.prev)
           ELSE fn.calibration =
                   fn.prev
                   + Mul(1000, (SCALE - Abs(fn.confidence[1] - c)) - fn.prev)

\* an event without confidence applied to a calibration that a default
\* confidence of 0, 0.5 or 1 would move, and that moves mastery
CalibrationRuleWitness ==
    /\ fn.done /\ fn.confidence = None
    /\ fn.prev = 7500 /\ fn.correct
    /\ fn.mastery > fn.prev /\ fn.calibration = 7500

\* fn holds finished arguments and results of compute_learning_index and
\* difficulty_band
IndexDone == "kind" \in DOMAIN fn /\ fn.kind = "index" /\ fn.done

\* 100 * (0.55*mastery + 0.15*stability + 0.15*pace + 0.15*calibration)
\* as a fraction over 10^6
WeightedSum(mastery, stability, pace, calibration) ==
    5500 * mastery + 1500 * stability + 1500 * pace + 1500 * calibration

(* C12: for mastery, stability, pace and calibration in [0,1],            *)
(* compute_learning_index is round(100*(0.55*mastery + 0.15*stability +   *)
(* 0.15*pace + 0.15*calibration)), an integer in 0..100; it is 0 only     *)
(* when the weighted sum rounds to 0 and 100 only when it rounds to 100.  *)
LearningIndexRule ==
    IndexDone
    => LET w == WeightedSum(fn.mastery, fn.stability, fn.pace,
                            fn.calibration)
       IN  /\ fn.learning_index = PyRound(w, 1000000)
           /\ fn.learning_index \in 0 .. 100
           /\ fn.learning_index = 0 => w <= 500000
           /\ fn.learning_index = 100 => w >= 99500000

LearningIndexRuleWitness ==
    /\ IndexDone
    /\ fn.mastery = 7500 /\ fn.stability = 5000
    /\ fn.pace = 3000 /\ fn.calibration = 10000
    /\ fn.learning_index = 68

\* fn holds the response of the handler of the given kind
Returned(kind) == "kind" \in DOMAIN fn /\ fn.kind = kind

\* IndexComposer of four metrics given as fixed-point numbers
IndexOf(mastery, stability, pace, calibration) ==
    PyRound(WeightedSum(mastery, stability, pace, calibration), 1000000)

\* the record's learning_index is the IndexComposer value of its metrics
RowComposed(r) ==
    r.learning_index =
        IndexOf(r.mastery, Max(0, Min(SCALE, SCALE - r.volatility)), r.pace,
                r.calibration)

\* a metrics result (in tenths of a percent) carries the IndexComposer value
\* of the metrics exposed alongside it
ExposedComposed(m) ==
    m.learning_index =
        IndexOf(10 * m.mastery, 10 * m.stability, 10 * m.pace,
                10 * m.calibration)

\* a metrics result shows record r: its metrics rounded to 0.1 percent and
\* its learning_index
Shows(m, r) ==
    /\ m.mastery = PyRound(r.mastery, 10)
    /\ m.stability = PyRound(Max(0, Min(SCALE, SCALE - r.volatility)), 10)
    /\ m.pace = PyRound(r.pace, 10)
    /\ m.calibration = PyRound(r.calibration, 10)
    /\ m.learning_index = r.learning_index

(* C13 as claimed: in every reachable state and in every metrics result   *)
(* exposed for a key (the SubmitEvent response, the stored TopicState,    *)
(* the GetTopicMetrics result, also for a key with no TopicState),        *)
(* learning_index is the IndexComposer function of the mastery,           *)
(* stability, pace and calibration exposed alongside it.                  *)
IndexOfExposedMetrics ==
    /\ \A r \in student_topic_state : RowComposed(r)
    /\ Returned("submit") => ExposedComposed(fn.updated_metrics)
    /\ Returned("metrics") => ExposedComposed(fn.metrics)

(* C13 amended: every stored TopicState carries the IndexComposer value   *)
(* of its own mastery, 1 - volatility, pace and calibration; the          *)
(* SubmitEvent response and the GetTopicMetrics result of a key that has  *)
(* a TopicState show that record's learning_index beside its metrics      *)
(* rounded to 0.1 percent; the GetTopicMetrics result of a key with no    *)
(* TopicState carries learning_index 0 beside stability, pace and         *)
(* calibration 50.                                                        *)
IndexOfStoredMetrics ==
    /\ \A r \in student_topic_state : RowComposed(r)
    /\ Returned("submit")
       => \E r \in RowsOf(fn.key) : Shows(fn.updated_metrics, r)
    /\ Returned("metrics") /\ RowsOf(fn.key) # {}
       => \E r \in RowsOf(fn.key) : Shows(fn.metrics, r)
    /\ Returned("metrics") /\ RowsOf(fn.key) = {}
       => /\ fn.metrics.learning_index = 0
          /\ fn.metrics.mastery = 0
          /\ fn.metrics.stability = 500
          /\ fn.metrics.pace = 500
          /\ fn.metrics.calibration = 500

IndexOfStoredMetricsWitness ==
    /\ Returned("metrics")
    /\ \E r \in RowsOf(fn.key) :
          /\ Shows(fn.metrics, r)
          /\ r.learning_index > 0
    /\ \E k \in Keys : RowsOf(k) = {}

\* band is the band the claim gives for mastery
BandFor(mastery, band) ==
    /\ mastery < 3500 => band = "intro"
    /\ 3500 <= mastery /\ mastery < 7500 => band = "core"
    /\ mastery >= 7500 => band = "stretch"
    /\ band \in {"intro", "core", "stretch"}

(* C14: difficulty_band is total over mastery in [0,1] with the boundary  *)
(* values in the higher band (below 0.35 intro, from 0.35 and below 0.75  *)
(* core, from 0.75 stretch), and every stored TopicState carries the      *)
(* difficulty_band of its own mastery.                                    *)
BandRule ==
    /\ IndexDone => BandFor(fn.mastery, fn.difficulty_band)
    /\ \A r \in student_topic_state : BandFor(r.mastery, r.difficulty_band)

BandRuleWitness ==
    \E r \in student_topic_state :
        /\ r.difficulty_band = "core"
        /\ r.mastery >= 3500
        /\ Cardinality(EventsOfKey(KeyOf(r))) = 3

\* the defaults get_topic_metrics documents for an unseen key, in tenths of
\* a percent
DefaultMetrics ==
    [mastery |-> 0, stability |-> 500, pace |-> 500, calibration |-> 500,
     learning_index |-> 0, difficulty_band |-> "intro"]

(* C15: GetTopicMetrics for a (student, topic) that never had a           *)
(* successful SubmitEvent returns exactly mastery 0, stability 50, pace   *)
(* 50, calibration 50, learning_index 0, difficulty_band intro, and       *)
(* creates no TopicState for that key.                                    *)
UnseenKeyDefaults ==
    [][ \A key \in Keys :
          /\ Serving
          /\ RowsOf(key) = {} /\ EventsOfKey(key) = {}
          /\ fn'.kind = "metrics" /\ fn'.key = key
          => /\ fn'.metrics = DefaultMetrics
             /\ student_topic_state' = student_topic_state
             /\ diagnostic_events' = diagnostic_events ]_vars

UnseenKeyDefaultsWitness ==
    /\ Returned("metrics")
    /\ RowsOf(fn.key) = {} /\ EventsOfKey(fn.key) = {}
    /\ fn.metrics.learning_index = 0
    /\ student_topic_state # {}

\* fn holds a finished application of decide_next_mode
PolicyDone == "kind" \in DOMAIN fn /\ fn.kind = "policy" /\ fn.done

\* positions of the last (up to 3) events of a history
Window(h) == { i \in DOMAIN h : i > Len(h) - 3 }

Misses(h) == Cardinality({ i \in Window(h) : ~h[i].correct })

Corrects(h) == Cardinality({ i \in Window(h) : h[i].correct })

RECURSIVE LatencyOver(_, _)
LatencyOver(h, S) ==
    IF S = {} THEN 0
    ELSE LET i == CHOOSE j \in S : TRUE
         IN  h[i].latency_ms + LatencyOver(h, S \ {i})

\* the mean latency over the window is strictly below 20000 ms
FastWindow(h) == LatencyOver(h, Window(h)) < 20000 * Cardinality(Window(h))

(* C16: decide_next_mode returns explain whenever fewer than 2 events     *)
(* exist for the key (no event, or one event whatever its correctness     *)
(* and latency).                                                          *)
ColdStartRule ==
    /\ PolicyDone /\ Len(fn.recent_events) < 2 => fn.mode = "explain"
    /\ Returned("turn") /\ Cardinality(EventsOfKey(fn.key)) < 2
       => fn.mode = "explain"

ColdStartRuleWitness ==
    /\ PolicyDone
    /\ Len(fn.recent_events) = 1
    /\ fn.recent_events[1].correct
    /\ fn.recent_events[1].latency_ms = 5000
    /\ fn.mode = "explain"

(* C17: for every history of at least 2 events, if at least 2 of the      *)
(* last (up to 3) events are incorrect, decide_next_mode returns explain, *)
(* even when the window holds a correct event and its mean latency is     *)
(* below 20000 ms: the misses check comes before the exercise rule.       *)
MissesFirstRule ==
    PolicyDone /\ Len(fn.recent_events) >= 2 /\ Misses(fn.recent_events) >= 2
    => fn.mode = "explain"

MissesFirstRuleWitness ==
    /\ PolicyDone
    /\ Len(fn.recent_events) >= 3
    /\ Misses(fn.recent_events) = 2
    /\ Corrects(fn.recent_events) = 1
    /\ FastWindow(fn.recent_events)
    /\ fn.mode = "explain"

(* C18: for every history of at least 2 events whose window has fewer     *)
(* than 2 incorrect events, decide_next_mode returns exercise exactly     *)
(* when the window has at least 1 correct event and the mean latency      *)
(* over the events actually in the window is strictly below 20000 ms; a   *)
(* mean of exactly 20000 ms yields explain.                               *)
ExerciseRule ==
    PolicyDone /\ Len(fn.recent_events) >= 2 /\ Misses(fn.recent_events) < 2
    => /\ fn.mode = "exercise"
          <=> Corrects(fn.recent_events) >= 1 /\ FastWindow(fn.recent_events)
       /\ ~FastWindow(fn.recent_events) => fn.mode = "explain"

ExerciseRuleWitness ==
    /\ PolicyDone
    /\ Len(fn.recent_events) = 2
    /\ Misses(fn.recent_events) = 0
    /\ LatencyOver(fn.recent_events, Window(fn.recent_events)) = 40000
    /\ fn.mode = "explain"

\* fn holds a finished application of the update rules
UpdateDone == "prev" \in DOMAIN fn /\ fn.done

(* C20: decide_next_mode, the update rules and the index composition are  *)
(* total: for every history and every valid event and state they return   *)
(* a value, decide_next_mode's value is explain or exercise, and every    *)
(* history matched by none of the cold-start, misses and exercise rules   *)
(* yields explain.                                                        *)
TotalCore ==
    /\ PolicyDone
       => /\ fn.mode \in {"explain", "exercise"}
          /\ /\ Len(fn.recent_events) >= 2
             /\ Misses(fn.recent_events) < 2
             /\ ~(Corrects(fn.recent_events) >= 1
                  /\ FastWindow(fn.recent_events))
             => fn.mode = "explain"
    /\ Returned("turn") => fn.mode \in {"explain", "exercise"}
    /\ UpdateDone
       => /\ fn.mastery \in Int /\ fn.pace \in Int /\ fn.calibration \in Int
          /\ \A i \in DOMAIN fn.stability : fn.stability[i] \in Int
    /\ IndexDone
       => /\ fn.learning_index \in Int
          /\ fn.difficulty_band \in {"intro", "core", "stretch"}

TotalCoreWitness ==
    /\ PolicyDone
    /\ Len(fn.recent_events) >= 2
    /\ Misses(fn.recent_events) = 1
    /\ ~FastWindow(fn.recent_events)
    /\ fn.mode = "explain"

\* the (up to 3) events of key k with the greatest created_at
MostRecent(k) ==
    { e \in EventsOfKey(k) :
        Cardinality({ x \in EventsOfKey(k) : x.created_at > e.created_at })
            < 3 }

\* the events of S ordered most-recent-last
ByCreatedAt(S) ==
    CHOOSE seq \in [1 .. Cardinality(S) -> S] :
        \A i, j \in 1 .. Cardinality(S) :
            i < j => seq[i].created_at < seq[j].created_at

(* C19: after any sequence of events logged for a key, the mode returned  *)
(* by GetNextMode is the policy applied to the 3 events of the key with   *)
(* the greatest created_at (fewer if fewer exist); a 4th and 5th most     *)
(* recent event have no influence on the result.                          *)
ThreeMostRecentDecide ==
    Returned("turn")
    => fn.mode = decide_next_mode(ByCreatedAt(MostRecent(fn.key)))

\* the step is a SubmitEvent that returned ok
SubmitReturnsOk ==
    /\ "kind" \in DOMAIN fn' /\ fn'.kind = "submit" /\ fn'.ok
    /\ clock' # clock

(* C21: the EventLog is append-only: across every sequence of             *)
(* SubmitEvent, GetTopicMetrics and GetNextMode calls an event once       *)
(* appended is never modified or removed, and each SubmitEvent that       *)
(* returns ok appends exactly one event, with an id distinct from all     *)
(* existing ids.                                                          *)
AppendOnlyLog ==
    [][ /\ diagnostic_events \subseteq diagnostic_events'
        /\ IF SubmitReturnsOk
           THEN \E e \in diagnostic_events' :
                   /\ diagnostic_events' = diagnostic_events \cup {e}
                   /\ \A x \in diagnostic_events : x.id # e.id
           ELSE diagnostic_events' = diagnostic_events ]_vars

AppendOnlyLogWitness ==
    /\ Returned("submit")
    /\ Cardinality(EventsOfKey(fn.key)) = 3
    /\ Cardinality({ e.id : e \in diagnostic_events }) = 4

\* a statement of a handler raised in this step (fn' names the handler)
HandlerFailed == "handler" \in DOMAIN fn'

(* C22: if a storage operation fails during SubmitEvent, GetTopicMetrics  *)
(* or GetNextMode, the call ends in an error reported to the caller: it   *)
(* returns no ok result, no metrics (not the defaults either) and no      *)
(* mode, and nothing is attempted again inside the call.                  *)
FailureSurfaces ==
    [][ HandlerFailed
        => /\ fn'.kind = "error"
           /\ fn'.status_code = 500
           /\ fn'.handler \in Handlers
           /\ DOMAIN fn' \cap {"ok", "updated_metrics", "metrics", "mode"}
                  = {}
           /\ student_topic_state' = student_topic_state
           /\ diagnostic_events' = diagnostic_events
           /\ clock' = clock ]_vars

FailureSurfacesWitness ==
    /\ Returned("error")
    /\ fn.handler = "get_topic_metrics"
    /\ \E k \in Keys : RowsOf(k) # {}
    /\ \E k \in Keys : RowsOf(k) = {}

(* C23: a GetTopicMetrics call that follows a successful SubmitEvent on   *)
(* the same key with no other write in between returns the same six       *)
(* values as that SubmitEvent's response; the stability it derives from   *)
(* the stored volatility is the stability percentage SubmitEvent          *)
(* reported.                                                              *)
MetricsRepeatSubmit ==
    [][ /\ Returned("submit")
        /\ "kind" \in DOMAIN fn' /\ fn'.kind = "metrics"
        /\ fn'.key = fn.key
        => /\ fn'.metrics = fn.updated_metrics
           /\ DOMAIN fn'.metrics =
                 {"mastery", "stability", "pace", "calibration",
                  "learning_index", "difficulty_band"} ]_vars

MetricsRepeatSubmitWitness ==
    /\ Returned("metrics")
    /\ Cardinality(EventsOfKey(fn.key)) >= 2
    /\ \E r \in RowsOf(fn.key) :
          /\ r.volatility # 5000
          /\ fn.metrics.stability = PyRound(SCALE - r.volatility, 10)
          /\ fn.metrics.mastery > 0

\* size of the mastery change of one event
MasteryMove(prev, correct, latency_ms, confidence) ==
    Abs(update_mastery(prev, correct, latency_ms, confidence) - prev)

(* C24: for a fixed previous mastery and correctness, the size of the     *)
(* mastery change is at least as large for latency_ms < 15000 as for      *)
(* latency_ms >= 15000, and is non-decreasing in confidence over the      *)
(* whole range [0,1] (confidence 0 moves mastery least of all present     *)
(* confidences); an event with absent confidence moves mastery as much    *)
(* as confidence 1.                                                       *)
MasteryMoveMonotone ==
    UpdateDone /\ fn.latency_ms >= 0
    => LET move == Abs(fn.mastery - fn.prev)
       IN  /\ \A l \in LatencyGrid :
                 fn.latency_ms >= 15000 /\ 0 <= l /\ l < 15000
                 => MasteryMove(fn.prev, fn.correct, l, fn.confidence)
                        >= move
           /\ \A cf \in ConfidenceGrid :
                 /\ fn.confidence # None /\ cf # None
                 /\ cf[1] >= fn.confidence[1]
                 => MasteryMove(fn.prev, fn.correct, fn.latency_ms, cf)
                        >= move
           /\ fn.confidence = None
              => move = MasteryMove(fn.prev, fn.correct, fn.latency_ms,
                                    Some(SCALE))

\* the TopicState the first event e of a key yields from the defaults
\* mastery 0.0, correct_ema 0.0, volatility 0.5, pace 0.5, calibration 0.5
FirstState(e) ==
    StateRow(e.student_id, e.topic_id,
             UpdateMetrics(Some([mastery |-> 0, correct_ema |-> 0,
                                 volatility |-> 5000, pace |-> 5000,
                                 calibration |-> 5000]), e))

\* the step is the successful return of a SubmitEvent on key k
SubmitCommits(k) ==
    \E c \in CallIds :
        /\ calls[c].pc = "event_saved" /\ calls'[c].pc = "ok"
        /\ KeyOf(calls[c].event) = k

OneStatePerKey ==
    \A k \in Keys :
        /\ Cardinality(RowsOf(k)) <= 1
        /\ RowsOf(k) # {} <=> applied[k] # << >>
        /\ Len(applied[k]) = 1
           => RowsOf(k) = { FirstState(calls[applied[k][1]].event) }

StateCreatedBySubmit ==
    \A k \in Keys :
        /\ RowsOf(k) # {} => \E r \in student_topic_state' : KeyOf(r) = k
        /\ RowsOf(k) = {} /\ (\E r \in student_topic_state' : KeyOf(r) = k)
           => SubmitCommits(k)

(* C25: a TopicState is created only by the first successful SubmitEvent  *)
(* for its key, and that first result is the update applied to the        *)
(* defaults mastery 0.0, correct_ema 0.0, volatility 0.5, pace 0.5,       *)
(* calibration 0.5; in every reachable state there is at most one         *)
(* TopicState per (student_id, topic_id), also when two first             *)
(* SubmitEvents for an unseen key race, and a TopicState once created is  *)
(* never removed.                                                         *)
LazyCreation == []OneStatePerKey /\ [][StateCreatedBySubmit]_vars

LazyCreationWitness ==
    \E c \in CallIds :
        /\ calls[c].pc = "computed"
        /\ calls[c].current_state = None
        /\ Cardinality(RowsOf(KeyOf(calls[c].event))) = 1

\* every logged event belongs to a call that returned ok and whose state
\* write reached the key's TopicState
LoggedEventsWritten ==
    \A e \in diagnostic_events :
        /\ calls[e.id].pc = "ok"
        /\ e.id \in Range(applied[KeyOf(e)])
        /\ RowsOf(KeyOf(e)) # {}

\* a call appends its event only after its state write, and the step that
\* makes the event visible makes the state written by the same call visible
StateBeforeEvent ==
    \A c \in CallIds :
        /\ calls'[c].pc = "event_saved" /\ calls[c].pc # "event_saved"
           => calls[c].pc = "state_saved"
        /\ (\E e \in diagnostic_events' \ diagnostic_events : e.id = c)
           => StateRow(calls[c].event.student_id, calls[c].event.topic_id,
                       calls[c].metrics) \in student_topic_state'

(* C26: within each SubmitEvent the new TopicState is written before the  *)
(* event is appended, so in every reachable state every event present in  *)
(* the EventLog for a key has had its update written to that key's        *)
(* TopicState; no event appears in the log for a call whose state write   *)
(* did not happen.                                                        *)
EventAfterStateWrite == []LoggedEventsWritten /\ [][StateBeforeEvent]_vars

EventAfterStateWriteWitness ==
    \E k \in Keys :
        /\ Cardinality(EventsOfKey(k)) = 3
        /\ Len(applied[k]) = 3
        /\ Len(lineage[k]) = 2

\* the TopicState after event a and then event b on an unseen key
Twice(a, b) ==
    StateRow(b.student_id, b.topic_id, UpdateMetrics(Some(FirstState(a)), b))

(* C27: the TopicState update is order-sensitive: there are a reachable   *)
(* TopicState and two valid events e1, e2 such that applying e1 then e2   *)
(* gives another TopicState than applying e2 then e1, and neither order   *)
(* raises an error.  Checked for every key that has received exactly two  *)
(* valid events of different correctness: its TopicState is the one of    *)
(* the order of arrival and differs from the one of the reverse order.    *)
OrderSensitive ==
    \A k \in Keys :
        \A e1, e2 \in EventsOfKey(k) :
            /\ Cardinality(EventsOfKey(k)) = 2
            /\ e1.created_at < e2.created_at
            /\ ValidEvent(e1) /\ ValidEvent(e2)
            /\ e1.correct # e2.correct
            => /\ RowsOf(k) = { Twice(e1, e2) }
               /\ Twice(e1, e2) # Twice(e2, e1)
               /\ Twice(e1, e2).mastery # Twice(e2, e1).mastery

OrderSensitiveWitness ==
    \E k \in Keys :
        \E e1, e2 \in EventsOfKey(k) :
            /\ Cardinality(EventsOfKey(k)) = 2
            /\ e1.created_at < e2.created_at
            /\ ValidEvent(e1) /\ ValidEvent(e2)
            /\ e1.correct /\ ~e2.correct
            /\ RowsOf(k) = { Twice(e1, e2) }
            /\ Twice(e2, e1).mastery > Twice(e1, e2).mastery

\* the step returns the result of a GetNextMode or GetTopicMetrics call
ReadReturns ==
    "kind" \in DOMAIN fn' /\ fn'.kind \in {"turn", "metrics"}

(* C28: GetNextMode and GetTopicMetrics are read-only: neither changes    *)
(* any TopicState nor appends to, modifies or removes from the EventLog;  *)
(* the last_turn_result of a GetNextMode request is not recorded as an    *)
(* event and does not influence the mode returned.                        *)
ReadsAreReadOnly ==
    [][ ReadReturns
        => /\ student_topic_state' = student_topic_state
           /\ diagnostic_events' = diagnostic_events
           /\ fn'.kind = "turn"
              => fn'.mode =
                    decide_next_mode(
                        SelectRecentEvents(diagnostic_events, fn'.key[1],
                                           fn'.key[2])) ]_vars

ReadsAreReadOnlyWitness ==
    /\ Returned("turn")
    /\ fn.mode = "exercise"
    /\ Cardinality(EventsOfKey(fn.key)) >= 2
    /\ RowsOf(fn.key) # {}

(* C29: for every previous mastery in [0,1] and every valid event the     *)
(* new mastery lies between the previous mastery and the target: a        *)
(* correct event never decreases mastery, an incorrect event never        *)
(* increases it, and one event never moves mastery by more than 15% of    *)
(* its distance to the target.  The bound is stated up to the half unit   *)
(* by which a fixed-point product is rounded.                             *)
MasteryTowardsTarget ==
    UpdateDone /\ fn.latency_ms >= 0
    => LET target == IF fn.correct THEN SCALE ELSE 0
       IN  /\ fn.correct => fn.prev <= fn.mastery /\ fn.mastery <= target
           /\ ~fn.correct => target <= fn.mastery /\ fn.mastery <= fn.prev
           /\ Abs(fn.mastery - fn.prev) * SCALE
                  <= 1500 * Abs(target - fn.prev) + SCALE \div 2

MasteryTowardsTargetWitness ==
    /\ UpdateDone
    /\ fn.correct /\ fn.confidence = None /\ fn.latency_ms = 5000
    /\ fn.prev = 5000 /\ fn.mastery = 5750

(* C30: for every history of at least 2 events with boolean correct       *)
(* flags, corrects + misses is the size of the examined window, so when   *)
(* the misses >= 2 check does not fire the window holds at least 1        *)
(* correct event: decide_next_mode returns exercise if and only if the    *)
(* window has at most 1 incorrect event and its mean latency is below     *)
(* 20000 ms.                                                              *)
ExerciseIffFewMissesAndFast ==
    PolicyDone /\ Len(fn.recent_events) >= 2
    => LET recent == LastN(fn.recent_events, 3)
       IN  /\ Count(recent, TRUE) + Count(recent, FALSE) = Len(recent)
           /\ Len(recent) = Cardinality(Window(fn.recent_events))
           /\ Count(recent, FALSE) < 2 => Count(recent, TRUE) >= 1
           /\ fn.mode = "exercise"
              <=> /\ Misses(fn.recent_events) <= 1
                  /\ FastWindow(fn.recent_events)

ExerciseIffFewMissesAndFastWitness ==
    /\ PolicyDone
    /\ Len(fn.recent_events) = 2
    /\ Misses(fn.recent_events) = 1
    /\ Corrects(fn.recent_events) = 1
    /\ FastWindow(fn.recent_events)
    /\ fn.mode = "exercise"

====
